---------------------------- MODULE Spec2Model ----------------------------
(***************************************************************************)
(* ucpack: a binary serialization codec with a framing layer.              *)
(*   frame = [start_index | length | payload | end_index | crc8(payload)]  *)
(* The model follows src/src/buffer.rs (cursors), src/src/ser.rs,          *)
(* src/src/de.rs (the serde data-format halves) and src/src/lib.rs (the    *)
(* frame layer, the probe and the CRC).                                    *)
(*                                                                         *)
(* A value is a record [t, name, n, fs]: t is the serde data-model kind    *)
(* the value presents itself as, name the type name serde passes on,       *)
(* n the scalar (a BOOLEAN for bool, the integer for the integer kinds,    *)
(* the IEEE-754 bit pattern read as a signed 32-bit integer for f32, the   *)
(* variant index for the variant kinds) and fs the fields in declared      *)
(* order.  A shape is a record [t, name, fs]: what the caller's type asks  *)
(* the deserializer for; the fs of an "enum" shape are its variants.       *)
(***************************************************************************)
EXTENDS Integers, Sequences, FiniteSets, TLC

\* ------------------------------------------------------------------ errors

Ok == [kind |-> "Ok", name |-> ""]
BadVariant == [kind |-> "BadVariant", name |-> ""]
Eof == [kind |-> "Eof", name |-> ""]
NoSupport(typename) == [kind |-> "NoSupport", name |-> typename]
TooLong == [kind |-> "TooLong", name |-> ""]
BufferFull == [kind |-> "BufferFull", name |-> ""]
DeError == [kind |-> "DeError", name |-> ""]
InvalidData == [kind |-> "InvalidData", name |-> ""]
WrongCrc == [kind |-> "WrongCrc", name |-> ""]
WrongIndex == [kind |-> "WrongIndex", name |-> ""]

\* ------------------------------------------------------------------ bytes

U8Max == 255
Polynomial == 140
DefaultStart == 65
DefaultEnd == 35

Byte == 0..U8Max

\* the sub-sequence s[from+1 .. to] (Rust's s[from..to], 0-based, half open)
Slice(s, from, to) == SubSeq(s, from + 1, to)

RECURSIVE Xor(_, _)
\* bitwise exclusive or of two naturals
Xor(a, b) ==
    IF a = 0 THEN b
    ELSE IF b = 0 THEN a
    ELSE (((a % 2) + (b % 2)) % 2) + 2 * Xor(a \div 2, b \div 2)

\* a >> j
ShiftRight(a, j) == a \div (2 ^ j)

\* one step of the fold of crc8: the closure applied to (crc, (byte, j)).
\* sum is (crc ^ (byte >> j)) & 0x01, the exclusive or of the two low bits.
Crc8Fold(crc, byte, j) ==
    LET sum == ((crc % 2) + (ShiftRight(byte, j) % 2)) % 2
        shifted == crc \div 2
    IN  Xor(shifted, IF sum # 0 THEN Polynomial ELSE 0)

RECURSIVE Crc8Bits(_, _, _)
\* the eight (byte, j) items the flat_map yields for one byte, folded from j
Crc8Bits(crc, byte, j) ==
    IF j = 8 THEN crc ELSE Crc8Bits(Crc8Fold(crc, byte, j), byte, j + 1)

RECURSIVE Crc8Range(_, _, _, _)
\* the fold over the bytes input[lo..hi], in order, from the accumulator crc
\* (evaluated by halves, which keeps the evaluation shallow; the order of the
\* bytes, and so the result, is that of the left fold)
Crc8Range(crc, input, lo, hi) ==
    IF lo > hi \/ crc \notin Byte THEN crc
    ELSE IF lo = hi THEN Crc8Bits(crc, input[lo], 0)
    ELSE LET mid == (lo + hi) \div 2
         IN  Crc8Range(Crc8Range(crc, input, lo, mid), input, mid + 1, hi)

\* faulty variant: the fold starts at the second byte
crc8_skip_first(input) == Crc8Range(0, input, 2, Len(input))

crc8(input) == Crc8Range(0, input, 1, Len(input))

crc8_slice(input) == crc8(input)

\* ------------------------------------------------------------------ buffers
\* A write buffer is [kind, buffer, index]: kind "vec" is the growable Vec<u8>
\* (index unused), kind "slice" a SliceCursor over a caller's slice.

VecBuffer(bytes) == [kind |-> "vec", buffer |-> bytes, index |-> 0]

from_slice(bf) == [kind |-> "slice", buffer |-> bf, index |-> 0]

RECURSIVE CopyFromSlice(_, _, _, _)
\* buffer[index..index + data.len()].copy_from_slice(data), from the i-th byte on
CopyFromSlice(buffer, index, data, i) ==
    IF i > Len(data) THEN buffer
    ELSE CopyFromSlice([buffer EXCEPT ![index + i] = data[i]], index, data, i + 1)

\* faulty variant: the bytes that fit are copied before BufferFull is returned
SliceCursorPushSlice_partial(c, data) ==
    LET room == Len(c.buffer) - c.index
    IN  IF Len(data) > room
        THEN [err |-> BufferFull,
              b |-> [c EXCEPT !.buffer = CopyFromSlice(c.buffer, c.index,
                                                       SubSeq(data, 1, room), 1)]]
        ELSE [err |-> Ok,
              b |-> [c EXCEPT !.buffer = CopyFromSlice(c.buffer, c.index, data, 1),
                              !.index = c.index + Len(data)]]

SliceCursorPushSlice(c, data) ==
    IF Len(data) > Len(c.buffer) - c.index
    THEN [err |-> BufferFull, b |-> c]
    ELSE [err |-> Ok,
          b |-> [c EXCEPT !.buffer = CopyFromSlice(c.buffer, c.index, data, 1),
                          !.index = c.index + Len(data)]]

VecPushSlice(v, bf) == [err |-> Ok, b |-> [v EXCEPT !.buffer = v.buffer \o bf]]

push_slice(b, bf) ==
    IF b.kind = "vec" THEN VecPushSlice(b, bf) ELSE SliceCursorPushSlice(b, bf)

push_u8(b, byte) == push_slice(b, <<byte>>)

\* ReadBuffer for SliceCursor: [err, bytes, c]
read_n(c, N) ==
    IF c.index + N > Len(c.buffer)
    THEN [err |-> Eof, bytes |-> <<>>, c |-> c]
    ELSE [err |-> Ok,
          bytes |-> Slice(c.buffer, c.index, c.index + N),
          c |-> [c EXCEPT !.index = c.index + N]]

read_u8(c) == read_n(c, 1)

\* ------------------------------------------------------------------ values

Val(kind, typename, scalar, fields) ==
    [t |-> kind, name |-> typename, n |-> scalar, fs |-> fields]

Bool(b) == Val("bool", "", b, <<>>)
U8(x) == Val("u8", "", x, <<>>)
I8(x) == Val("i8", "", x, <<>>)
U16(x) == Val("u16", "", x, <<>>)
I16(x) == Val("i16", "", x, <<>>)
F32(bits) == Val("f32", "", bits, <<>>)
Tuple(fields) == Val("tuple", "", 0, fields)
Struct(typename, fields) == Val("struct", typename, 0, fields)
UnitVariant(typename, idx) == Val("unit_variant", typename, idx, <<>>)
NewtypeVariant(typename, idx, obj) == Val("newtype_variant", typename, idx, <<obj>>)
TupleVariant(typename, idx, fields) == Val("tuple_variant", typename, idx, fields)
StructVariant(typename, idx, fields) == Val("struct_variant", typename, idx, fields)

\* v as u8 / v as u16 of the signed kinds: the two's complement bit pattern
AsU8(x) == x % 256
AsU16(x) == x % 65536
\* faulty variant: u16::to_be_bytes
U16ToBeBytes(x) == <<(x \div 256) % 256, x % 256>>

\* u16::to_le_bytes
U16ToLeBytes(x) == <<x % 256, (x \div 256) % 256>>
\* f32::to_le_bytes, on the bit pattern (a signed 32-bit integer)
F32ToLeBytes(bits) ==
    <<bits % 256, (bits \div 256) % 256, (bits \div 65536) % 256,
      (bits \div 16777216) % 256>>

\* ------------------------------------------------------------------ serializer
\* Every operation takes the write buffer b and returns [err, b].

serialize_u8(b, v) == push_u8(b, v)

serialize_bool(b, v) == serialize_u8(b, IF v THEN 1 ELSE 0)

serialize_i8(b, v) == serialize_u8(b, AsU8(v))

serialize_u16(b, v) == push_slice(b, U16ToLeBytes(v))

serialize_i16(b, v) == serialize_u16(b, AsU16(v))

serialize_f32(b, v) == push_slice(b, F32ToLeBytes(v))

\* the unimpl! arms: the name each one reports
UnimplName(kind) ==
    CASE kind = "u32" -> "u32"
      [] kind = "i32" -> "i32"
      [] kind = "u64" -> "u64"
      [] kind = "i64" -> "i64"
      [] kind = "u128" -> "u128"
      [] kind = "i128" -> "i128"
      [] kind = "f64" -> "f64"
      [] kind = "char" -> "char"
      [] kind = "str" -> "&str"
      [] kind = "bytes" -> "&[u8]"
      [] kind = "none" -> ""
      [] kind = "unit" -> ""
      [] kind = "unit_struct" -> "&str"
      [] kind = "some" -> "Some"
      [] kind = "seq" -> "sequence"
      [] kind = "map" -> "map"

Unimplemented == {"u32", "i32", "u64", "i64", "u128", "i128", "f64", "char",
                  "str", "bytes", "none", "unit", "unit_struct", "some", "seq",
                  "map"}

serialize_unit_variant(b, name) == [err |-> NoSupport(name), b |-> b]

\* the discriminant byte of serialize_newtype_variant / serialize_tuple_variant
serialize_variant_index(b, idx) ==
    IF idx > U8Max THEN [err |-> BadVariant, b |-> b] ELSE serialize_u8(b, idx)

RECURSIVE Serialize(_, _)
RECURSIVE SerializeRange(_, _, _, _)

\* serialize_element / serialize_field of the Serialize* impls for the fields
\* lo..hi, in declared order: the derived impl stops at the first error (the ?
\* operator).  Evaluated by halves, in the same order.
SerializeRange(b, fields, lo, hi) ==
    IF lo > hi THEN [err |-> Ok, b |-> b]
    ELSE IF lo = hi THEN Serialize(b, fields[lo])
    ELSE LET mid == (lo + hi) \div 2
             r == SerializeRange(b, fields, lo, mid)
         IN  IF r.err # Ok THEN r ELSE SerializeRange(r.b, fields, mid + 1, hi)

SerializeFields(b, fields) == SerializeRange(b, fields, 1, Len(fields))

serialize_newtype_variant(b, idx, obj) ==
    LET r == serialize_variant_index(b, idx)
    IN  IF r.err # Ok THEN r ELSE Serialize(r.b, obj)

serialize_tuple_variant(b, idx, fields) ==
    LET r == serialize_variant_index(b, idx)
    IN  IF r.err # Ok THEN r ELSE SerializeFields(r.b, fields)

serialize_struct_variant(b, idx, fields) == serialize_tuple_variant(b, idx, fields)

\* payload.serialize(&mut serializer): the value calls the method of its kind
Serialize(b, v) ==
    CASE v.t = "bool" -> serialize_bool(b, v.n)
      [] v.t = "u8" -> serialize_u8(b, v.n)
      [] v.t = "i8" -> serialize_i8(b, v.n)
      [] v.t = "u16" -> serialize_u16(b, v.n)
      [] v.t = "i16" -> serialize_i16(b, v.n)
      [] v.t = "f32" -> serialize_f32(b, v.n)
      [] v.t \in Unimplemented -> [err |-> NoSupport(UnimplName(v.t)), b |-> b]
      [] v.t = "unit_variant" -> serialize_unit_variant(b, v.name)
      [] v.t = "newtype_struct" -> Serialize(b, v.fs[1])
      [] v.t = "newtype_variant" -> serialize_newtype_variant(b, v.n, v.fs[1])
      [] v.t \in {"tuple", "tuple_struct", "struct"} -> SerializeFields(b, v.fs)
      [] v.t = "tuple_variant" -> serialize_tuple_variant(b, v.n, v.fs)
      [] v.t = "struct_variant" -> serialize_struct_variant(b, v.n, v.fs)

\* ------------------------------------------------------------------ frame layer
\* A codec is [start_index, end_index].

new(start_index, end_index) == [start_index |-> start_index, end_index |-> end_index]

default == new(DefaultStart, DefaultEnd)

\* faulty variant: the CRC taken over the header too, buffer[..data_end]
serialize_vec_crc_header(self, payload) ==
    LET r == Serialize(VecBuffer(<<self.start_index, 0>>), payload)
        buffer == r.b.buffer
        data_end == Len(buffer)
    IN  IF r.err # Ok THEN [err |-> r.err, buf |-> <<>>]
        ELSE IF data_end - 2 > U8Max THEN [err |-> TooLong, buf |-> <<>>]
        ELSE [err |-> Ok,
              buf |-> [buffer EXCEPT ![2] = data_end - 2]
                        \o <<self.end_index, crc8_slice(Slice(buffer, 0, data_end))>>]

\* [err, buf]: buf is the returned Vec (dropped, <<>>, on an error)
serialize_vec(self, payload) ==
    LET r == Serialize(VecBuffer(<<self.start_index, 0>>), payload)
        buffer == r.b.buffer
        data_end == Len(buffer)
    IN  IF r.err # Ok THEN [err |-> r.err, buf |-> <<>>]
        ELSE IF data_end - 2 > U8Max THEN [err |-> TooLong, buf |-> <<>>]
        ELSE [err |-> Ok,
              buf |-> [buffer EXCEPT ![2] = data_end - 2]
                        \o <<self.end_index, crc8_slice(Slice(buffer, 2, data_end))>>]

\* faulty variant: the length byte is left at its placeholder
serialize_slice_unpatched(self, payload, buffer) ==
    LET c0 == push_slice(from_slice(buffer), <<self.start_index, 0>>)
        r == Serialize(c0.b, payload)
        data_end == r.b.index
        crc == crc8_slice(Slice(r.b.buffer, 2, data_end))
        c1 == push_slice(r.b, <<self.end_index, crc>>)
        total_size == c1.b.index
    IN  IF c0.err # Ok THEN [err |-> c0.err, n |-> 0, buffer |-> c0.b.buffer]
        ELSE IF r.err # Ok THEN [err |-> r.err, n |-> 0, buffer |-> r.b.buffer]
        ELSE IF c1.err # Ok THEN [err |-> c1.err, n |-> 0, buffer |-> c1.b.buffer]
        ELSE IF data_end - 2 > U8Max
             THEN [err |-> TooLong, n |-> 0, buffer |-> c1.b.buffer]
        ELSE [err |-> Ok, n |-> total_size, buffer |-> c1.b.buffer]

\* [err, n, buffer]: n is the returned size, buffer the caller's slice after the call
serialize_slice(self, payload, buffer) ==
    LET c0 == push_slice(from_slice(buffer), <<self.start_index, 0>>)
        r == Serialize(c0.b, payload)
        data_end == r.b.index
        crc == crc8_slice(Slice(r.b.buffer, 2, data_end))
        c1 == push_slice(r.b, <<self.end_index, crc>>)
        total_size == c1.b.index
    IN  IF c0.err # Ok THEN [err |-> c0.err, n |-> 0, buffer |-> c0.b.buffer]
        ELSE IF r.err # Ok THEN [err |-> r.err, n |-> 0, buffer |-> r.b.buffer]
        ELSE IF c1.err # Ok THEN [err |-> c1.err, n |-> 0, buffer |-> c1.b.buffer]
        ELSE IF data_end - 2 > U8Max
             THEN [err |-> TooLong, n |-> 0, buffer |-> c1.b.buffer]
        ELSE [err |-> Ok, n |-> total_size,
              buffer |-> [c1.b.buffer EXCEPT ![2] = data_end - 2]]

\* faulty variant: one byte short, buffer.get(..(length + 3))
is_complete_message_short(buffer) ==
    IF Len(buffer) < 2 THEN [some |-> FALSE, msg |-> <<>>]
    ELSE LET length == buffer[2]
         IN  IF Len(buffer) < length + 3 THEN [some |-> FALSE, msg |-> <<>>]
             ELSE [some |-> TRUE, msg |-> Slice(buffer, 0, length + 3)]

\* Option<&[u8]>: [some, msg]
is_complete_message(buffer) ==
    IF Len(buffer) < 2 THEN [some |-> FALSE, msg |-> <<>>]
    ELSE LET length == buffer[2]
         IN  IF Len(buffer) < length + 4 THEN [some |-> FALSE, msg |-> <<>>]
             ELSE [some |-> TRUE, msg |-> Slice(buffer, 0, length + 4)]

\* ------------------------------------------------------------------ shapes

Shape(kind, typename, fields) == [t |-> kind, name |-> typename, fs |-> fields]

SBool == Shape("bool", "", <<>>)
SU8 == Shape("u8", "", <<>>)
SI8 == Shape("i8", "", <<>>)
SU16 == Shape("u16", "", <<>>)
SI16 == Shape("i16", "", <<>>)
SF32 == Shape("f32", "", <<>>)
STuple(fields) == Shape("tuple", "", fields)
SStruct(typename, fields) == Shape("struct", typename, fields)
SEnum(typename, variants) == Shape("enum", typename, variants)
SUnitVariant == Shape("unit_variant", "", <<>>)
SNewtypeVariant(obj) == Shape("newtype_variant", "", <<obj>>)
STupleVariant(fields) == Shape("tuple_variant", "", fields)
SStructVariant(fields) == Shape("struct_variant", "", fields)

\* u16::from_le_bytes
U16FromLeBytes(bytes) == bytes[1] + 256 * bytes[2]
\* x as i8 / x as i16
AsI8(x) == IF x >= 128 THEN x - 256 ELSE x
AsI16(x) == IF x >= 32768 THEN x - 65536 ELSE x
\* f32::from_le_bytes, to the bit pattern read as a signed 32-bit integer
F32FromLeBytes(bytes) ==
    bytes[1] + 256 * bytes[2] + 65536 * bytes[3]
      + 16777216 * (IF bytes[4] >= 128 THEN bytes[4] - 256 ELSE bytes[4])

\* ------------------------------------------------------------------ deserializer
\* Every operation takes the read cursor c and returns [err, val, c].

NoValue == Val("", "", 0, <<>>)

DeErr(e, c) == [err |-> e, val |-> NoValue, c |-> c]

read_u16(c) ==
    LET r == read_n(c, 2)
    IN  IF r.err # Ok THEN [err |-> r.err, x |-> 0, c |-> r.c]
        ELSE [err |-> Ok, x |-> U16FromLeBytes(r.bytes), c |-> r.c]

deserialize_bool(c) ==
    LET r == read_u8(c)
    IN  IF r.err # Ok THEN DeErr(r.err, r.c)
        ELSE IF r.bytes[1] = 0 THEN [err |-> Ok, val |-> Bool(FALSE), c |-> r.c]
        ELSE IF r.bytes[1] = 1 THEN [err |-> Ok, val |-> Bool(TRUE), c |-> r.c]
        ELSE DeErr(InvalidData, r.c)

deserialize_i8(c) ==
    LET r == read_u8(c)
    IN  IF r.err # Ok THEN DeErr(r.err, r.c)
        ELSE [err |-> Ok, val |-> I8(AsI8(r.bytes[1])), c |-> r.c]

deserialize_i16(c) ==
    LET r == read_u16(c)
    IN  IF r.err # Ok THEN DeErr(r.err, r.c)
        ELSE [err |-> Ok, val |-> I16(AsI16(r.x)), c |-> r.c]

deserialize_u8(c) ==
    LET r == read_u8(c)
    IN  IF r.err # Ok THEN DeErr(r.err, r.c)
        ELSE [err |-> Ok, val |-> U8(r.bytes[1]), c |-> r.c]

deserialize_u16(c) ==
    LET r == read_u16(c)
    IN  IF r.err # Ok THEN DeErr(r.err, r.c)
        ELSE [err |-> Ok, val |-> U16(r.x), c |-> r.c]

deserialize_f32(c) ==
    LET r == read_n(c, 4)
    IN  IF r.err # Ok THEN DeErr(r.err, r.c)
        ELSE [err |-> Ok, val |-> F32(F32FromLeBytes(r.bytes)), c |-> r.c]

\* the unimpl_de! arms: the name each one reports
UnimplDeName(shape) ==
    CASE shape.t = "any" -> "any"
      [] shape.t = "i32" -> "i32"
      [] shape.t = "i64" -> "i64"
      [] shape.t = "u32" -> "u32"
      [] shape.t = "u64" -> "u64"
      [] shape.t = "f64" -> "f64"
      [] shape.t = "char" -> "char"
      [] shape.t = "str" -> "&str"
      [] shape.t = "string" -> "String"
      [] shape.t = "bytes" -> "&[u8]"
      [] shape.t = "byte_buf" -> "byte_buf"
      [] shape.t = "option" -> "option"
      [] shape.t = "unit" -> "unit"
      [] shape.t = "unit_struct" -> shape.name
      [] shape.t = "seq" -> "seq"
      [] shape.t = "map" -> "map"
      [] shape.t = "ignored_any" -> "ignored type"

UnimplementedDe == {"any", "i32", "i64", "u32", "u64", "f64", "char", "str",
                    "string", "bytes", "byte_buf", "option", "unit",
                    "unit_struct", "seq", "map", "ignored_any"}

\* EnumAccess::variant_seed: [err, x, c], x the discriminant byte; the seed (the
\* derived variant identifier) rejects a discriminant that names no variant
variant_seed(c, variants) ==
    LET r == read_u8(c)
    IN  IF r.err # Ok THEN [err |-> r.err, x |-> 0, c |-> r.c]
        ELSE IF r.bytes[1] >= Len(variants) THEN [err |-> DeError, x |-> 0, c |-> r.c]
        ELSE [err |-> Ok, x |-> r.bytes[1], c |-> r.c]

RECURSIVE Deserialize(_, _)
RECURSIVE VisitSeq(_, _, _, _, _)

\* SeriesAccess::next_element_seed: [err, some, val, c, remaining]; remaining
\* is the SeriesAccess counter, some = FALSE the answer Ok(None)
next_element_seed(c, remaining, seed) ==
    IF remaining <= 0
    THEN [err |-> Ok, some |-> FALSE, val |-> NoValue, c |-> c,
          remaining |-> remaining]
    ELSE LET r == Deserialize(c, seed)
         IN  [err |-> r.err, some |-> TRUE, val |-> r.val, c |-> r.c,
              remaining |-> remaining - 1]

\* the derived visit_seq: one next_element per declared field, lo..hi in order,
\* a missing element being serde's invalid_length error; [err, vals, c,
\* remaining].  Evaluated by halves, in the same order.
VisitSeq(c, remaining, fields, lo, hi) ==
    IF lo > hi THEN [err |-> Ok, vals |-> <<>>, c |-> c, remaining |-> remaining]
    ELSE IF lo = hi
    THEN LET r == next_element_seed(c, remaining, fields[lo])
         IN  IF r.err # Ok
             THEN [err |-> r.err, vals |-> <<>>, c |-> r.c, remaining |-> r.remaining]
             ELSE IF ~r.some
             THEN [err |-> DeError, vals |-> <<>>, c |-> r.c, remaining |-> r.remaining]
             ELSE [err |-> Ok, vals |-> <<r.val>>, c |-> r.c, remaining |-> r.remaining]
    ELSE LET mid == (lo + hi) \div 2
             l == VisitSeq(c, remaining, fields, lo, mid)
             h == VisitSeq(l.c, l.remaining, fields, mid + 1, hi)
         IN  IF l.err # Ok THEN l ELSE [h EXCEPT !.vals = l.vals \o h.vals]

\* deserialize_tuple(len, visitor), building a value of kind `kind`
deserialize_tuple(c, len, kind, typename, idx, fields) ==
    LET r == VisitSeq(c, len, fields, 1, Len(fields))
    IN  IF r.err # Ok THEN DeErr(r.err, r.c)
        ELSE [err |-> Ok, val |-> Val(kind, typename, idx, r.vals), c |-> r.c]

unit_variant(c, typename, idx) ==
    [err |-> Ok, val |-> UnitVariant(typename, idx), c |-> c]

newtype_variant_seed(c, typename, idx, obj) ==
    LET r == Deserialize(c, obj)
    IN  IF r.err # Ok THEN DeErr(r.err, r.c)
        ELSE [err |-> Ok, val |-> NewtypeVariant(typename, idx, r.val), c |-> r.c]

tuple_variant(c, typename, idx, fields) ==
    deserialize_tuple(c, Len(fields), "tuple_variant", typename, idx, fields)

struct_variant(c, typename, idx, fields) ==
    deserialize_tuple(c, Len(fields), "struct_variant", typename, idx, fields)

deserialize_enum(c, shape) ==
    LET d == variant_seed(c, shape.fs)
        variant == shape.fs[d.x + 1]
    IN  IF d.err # Ok THEN DeErr(d.err, d.c)
        ELSE CASE variant.t = "unit_variant" -> unit_variant(d.c, shape.name, d.x)
               [] variant.t = "newtype_variant" ->
                    newtype_variant_seed(d.c, shape.name, d.x, variant.fs[1])
               [] variant.t = "tuple_variant" ->
                    tuple_variant(d.c, shape.name, d.x, variant.fs)
               [] variant.t = "struct_variant" ->
                    struct_variant(d.c, shape.name, d.x, variant.fs)

deserialize_newtype_struct(c, shape) ==
    LET r == Deserialize(c, shape.fs[1])
    IN  IF r.err # Ok THEN DeErr(r.err, r.c)
        ELSE [err |-> Ok, val |-> Val("newtype_struct", shape.name, 0, <<r.val>>),
              c |-> r.c]

\* T::deserialize(&mut de): the type asks for the method of its shape
Deserialize(c, shape) ==
    CASE shape.t = "bool" -> deserialize_bool(c)
      [] shape.t = "i8" -> deserialize_i8(c)
      [] shape.t = "i16" -> deserialize_i16(c)
      [] shape.t = "u8" -> deserialize_u8(c)
      [] shape.t = "u16" -> deserialize_u16(c)
      [] shape.t = "f32" -> deserialize_f32(c)
      [] shape.t \in UnimplementedDe -> DeErr(NoSupport(UnimplDeName(shape)), c)
      [] shape.t = "newtype_struct" -> deserialize_newtype_struct(c, shape)
      [] shape.t \in {"tuple", "tuple_struct", "struct"} ->
           deserialize_tuple(c, Len(shape.fs), shape.t, shape.name, 0, shape.fs)
      [] shape.t = "enum" -> deserialize_enum(c, shape)

\* faulty variant: strict mode compares the start marker only
frame_checks_start_only(self, strict, buffer) ==
    LET complete == is_complete_message(buffer)
        packet == complete.msg
        index == packet[1]
        payload == Slice(packet, 2, Len(packet) - 2)
        crc == packet[Len(packet)]
        expected_crc == crc8_slice(payload)
    IN  IF ~complete.some THEN [err |-> Eof, payload |-> <<>>]
        ELSE IF Len(packet) < 4 THEN [err |-> Eof, payload |-> <<>>]
        ELSE IF strict /\ index # self.start_index
             THEN [err |-> WrongIndex, payload |-> <<>>]
        ELSE IF expected_crc # crc THEN [err |-> WrongCrc, payload |-> <<>>]
        ELSE [err |-> Ok, payload |-> payload]

\* faulty variant: the CRC is compared before the markers
frame_checks_crc_first(self, strict, buffer) ==
    LET complete == is_complete_message(buffer)
        packet == complete.msg
        index == packet[1]
        payload == Slice(packet, 2, Len(packet) - 2)
        end_index == packet[Len(packet) - 1]
        crc == packet[Len(packet)]
        expected_crc == crc8_slice(payload)
    IN  IF ~complete.some THEN [err |-> Eof, payload |-> <<>>]
        ELSE IF Len(packet) < 4 THEN [err |-> Eof, payload |-> <<>>]
        ELSE IF expected_crc # crc THEN [err |-> WrongCrc, payload |-> <<>>]
        ELSE IF strict /\ (index # self.start_index \/ end_index # self.end_index)
             THEN [err |-> WrongIndex, payload |-> <<>>]
        ELSE [err |-> Ok, payload |-> payload]

\* the checks deserialize_slice makes before it runs the deserializer:
\* [err, payload]
frame_checks(self, strict, buffer) ==
    LET complete == is_complete_message(buffer)
        packet == complete.msg
        index == packet[1]
        payload == Slice(packet, 2, Len(packet) - 2)
        end_index == packet[Len(packet) - 1]
        crc == packet[Len(packet)]
        expected_crc == crc8_slice(payload)
    IN  IF ~complete.some THEN [err |-> Eof, payload |-> <<>>]
        ELSE IF Len(packet) < 4 THEN [err |-> Eof, payload |-> <<>>]
        ELSE IF strict /\ (index # self.start_index \/ end_index # self.end_index)
             THEN [err |-> WrongIndex, payload |-> <<>>]
        ELSE IF expected_crc # crc THEN [err |-> WrongCrc, payload |-> <<>>]
        ELSE [err |-> Ok, payload |-> payload]

\* faulty variant: the cursor runs to the end of the packet, payload @ .. taking
\* the end marker and the CRC byte with it
deserialize_slice_to_end(self, strict, buffer, shape) ==
    LET checked == frame_checks(self, strict, buffer)
        packet == is_complete_message(buffer).msg
        r == Deserialize(from_slice(Slice(packet, 2, Len(packet))), shape)
    IN  IF checked.err # Ok THEN [err |-> checked.err, val |-> NoValue]
        ELSE [err |-> r.err, val |-> r.val]

\* [err, val]
deserialize_slice(self, strict, buffer, shape) ==
    LET checked == frame_checks(self, strict, buffer)
        r == Deserialize(from_slice(checked.payload), shape)
    IN  IF checked.err # Ok THEN [err |-> checked.err, val |-> NoValue]
        ELSE [err |-> r.err, val |-> r.val]

\* ------------------------------------------------------------------ inputs

MaxSmallCap == 5
MaxSlack == 1
MaxTrailer == 1
MaxCorruptLen == 10

\* the types of tests/std.rs, and a union with one variant of each form
TestEnum == SEnum("TestEnum", <<SUnitVariant, SNewtypeVariant(SU16)>>)
TestPayload3 == SStruct("TestPayload", <<SU16, SU8, SF32>>)
TestPayload == SStruct("TestPayload", <<SU16, SU8, SF32, TestEnum>>)
Command == SEnum("Command", <<SUnitVariant, SNewtypeVariant(SU16),
                              STupleVariant(<<SU8, SBool>>),
                              SStructVariant(<<SI16, SI8>>)>>)
Wide == SEnum("Wide", [k \in 1..(U8Max + 2) |-> SNewtypeVariant(SU8)])
Sandwich == SStruct("Sandwich", <<SU8, TestEnum, SU8>>)
LongTuple(len) == Tuple([k \in 1..len |-> U8(k % 256)])
SLongTuple(len) == STuple([k \in 1..len |-> SU8])

Entry(v, sh) == [v |-> v, shape |-> sh]

Pool ==
    << Entry(Bool(TRUE), SBool),
       Entry(Bool(FALSE), SBool),
       Entry(U8(35), SU8),
       Entry(U8(255), SU8),
       Entry(I8(-1), SI8),
       Entry(U16(1), SU16),
       Entry(U16(35), SU16),
       Entry(U16(43981), SU16),
       Entry(I16(-2), SI16),
       Entry(F32(1065353216), SF32),
       Entry(F32(-1082130432), SF32),
       Entry(Struct("TestPayload", <<U16(1), U8(2), F32(1065353216)>>), TestPayload3),
       Entry(Struct("TestPayload", <<U16(1), U8(2), F32(1065353216),
                                     NewtypeVariant("TestEnum", 1, U16(10))>>),
             TestPayload),
       Entry(NewtypeVariant("TestEnum", 1, U16(10)), TestEnum),
       Entry(UnitVariant("TestEnum", 0), TestEnum),
       Entry(UnitVariant("Command", 0), Command),
       Entry(NewtypeVariant("Command", 1, U16(515)), Command),
       Entry(TupleVariant("Command", 2, <<U8(7), Bool(TRUE)>>), Command),
       Entry(StructVariant("Command", 3, <<I16(-300), I8(-5)>>), Command),
       Entry(Tuple(<<U8(9), U16(515)>>), STuple(<<SU8, SU16>>)),
       Entry(Val("newtype_struct", "Wrapper", 0, <<U8(7)>>),
             Shape("newtype_struct", "Wrapper", <<SU8>>)),
       Entry(Val("tuple_struct", "Pair", 0, <<I8(-128), Bool(FALSE)>>),
             Shape("tuple_struct", "Pair", <<SI8, SBool>>)),
       Entry(Struct("Sandwich", <<U8(1), UnitVariant("TestEnum", 0), U8(2)>>),
             Sandwich),
       Entry(NewtypeVariant("Wide", U8Max + 1, U8(1)), Wide),
       Entry(Val("u32", "", 5, <<>>), Shape("u32", "", <<>>)),
       Entry(Tuple(<<U8(1), Val("none", "", 0, <<>>)>>),
             STuple(<<SU8, Shape("option", "", <<>>)>>)),
       Entry(LongTuple(U8Max), SLongTuple(U8Max)),
       Entry(LongTuple(U8Max + 1), SLongTuple(U8Max + 1)),
       Entry(LongTuple(U8Max + 2), SLongTuple(U8Max + 2)) >>

Codecs == {default, new(1, 4)}
FillBytes == {0, 170}
TrailerBytes == {0, 65}
MarkerBytes == {0, 1, 4, 35, 65}

\* ------------------------------------------------------------------ state

VARIABLES
    codec,     \* the UcPack instance
    strict,    \* cfg!(feature = "strict")
    value,     \* the value the caller encodes
    shape,     \* the type the caller decodes as
    pc,        \* where the caller is
    vecres,    \* what serialize_vec returned: [err, buf]
    buffer,    \* the caller's slice handed to serialize_slice
    sliceres,  \* what serialize_slice returned: [err, n]
    rx,        \* the receive buffer: the bytes received so far
    probe,     \* the last answer of is_complete_message: [called, some, msg]
    tampered,  \* what the link altered in rx: "no", "payload", "start", "end"
    decoded,   \* what deserialize_slice returned: [called, err, val]
    cursor,    \* a SliceCursor a caller drives directly: [kind, buffer, index]
    op         \* the last call on cursor: [name, arg, err, out, before]

vars == <<codec, strict, value, shape, pc, vecres, buffer, sliceres, rx, probe,
          tampered, decoded, cursor, op>>

NotCalled == [err |-> Ok, buf |-> <<>>]

\* no call made on cursor yet
NoOp == [name |-> "", arg |-> <<>>, err |-> Ok, out |-> <<>>, before |-> from_slice(<<>>)]

Init ==
    /\ codec \in Codecs
    /\ strict \in BOOLEAN
    /\ \E i \in 1..Len(Pool) : value = Pool[i].v /\ shape = Pool[i].shape
    /\ pc = "start"
    /\ vecres = NotCalled
    /\ buffer = <<>>
    /\ sliceres = [err |-> Ok, n |-> 0]
    /\ rx = <<>>
    /\ probe = [called |-> FALSE, some |-> FALSE, msg |-> <<>>]
    /\ tampered = "no"
    /\ decoded = [called |-> FALSE, err |-> Ok, val |-> NoValue]
    /\ cursor = from_slice(<<>>)
    /\ op = NoOp

\* the bytes the serializer writes for the value before it returns
Written == Serialize(VecBuffer(<<>>), value).b.buffer

\* the size of the frame of the value
Need == Len(Written) + 4

Capacities ==
    (0..MaxSmallCap) \cup {c \in (Need - 4)..(Need + MaxSlack) : c >= 0}

\* the caller hands a slice of cap bytes, each holding fill, to serialize_slice
SerializeSlice(cap, fill) ==
    /\ LET r == serialize_slice(codec, value, [k \in 1..cap |-> fill])
       IN  /\ buffer' = r.buffer
           /\ sliceres' = [err |-> r.err, n |-> r.n]
    /\ pc' = "slice"
    /\ UNCHANGED <<cursor, op, codec, strict, value, shape, vecres, rx, probe, tampered, decoded>>

SerializeVec ==
    /\ pc \in {"start", "slice"}
    /\ vecres' = serialize_vec(codec, value)
    /\ pc' = IF pc = "start" THEN "vec" ELSE "both"
    /\ UNCHANGED <<cursor, op, codec, strict, value, shape, buffer, sliceres, rx, probe,
                   tampered, decoded>>

\* the frame is on the link
Sending == pc = "vec" /\ vecres.err = Ok

\* the next byte of the frame arrives
Receive ==
    /\ Sending
    /\ tampered = "no"
    /\ Len(rx) < Len(vecres.buf)
    /\ rx' = Append(rx, vecres.buf[Len(rx) + 1])
    /\ probe' = [probe EXCEPT !.called = FALSE]
    /\ UNCHANGED <<cursor, op, codec, strict, value, shape, pc, vecres, buffer, sliceres,
                   tampered, decoded>>

\* a byte that follows the frame arrives
ReceiveTrailing(b) ==
    /\ Sending
    /\ tampered = "no"
    /\ Len(rx) >= Len(vecres.buf)
    /\ Len(rx) < Len(vecres.buf) + MaxTrailer
    /\ rx' = Append(rx, b)
    /\ probe' = [probe EXCEPT !.called = FALSE]
    /\ UNCHANGED <<cursor, op, codec, strict, value, shape, pc, vecres, buffer, sliceres,
                   tampered, decoded>>

\* the receiver asks whether the bytes received so far hold a message
IsCompleteMessage ==
    /\ Sending
    /\ tampered = "no"
    /\ LET r == is_complete_message(rx)
       IN  probe' = [called |-> TRUE, some |-> r.some, msg |-> r.msg]
    /\ UNCHANGED <<cursor, op, codec, strict, value, shape, pc, vecres, buffer, sliceres, rx,
                   tampered, decoded>>

\* the received frame, whole and as sent, is in rx and has been seen complete
Received == Sending /\ tampered = "no" /\ rx = vecres.buf /\ probe.called

\* the link replaces the payload byte at offset 2 + pos of the received frame
Corrupt(pos, b) ==
    /\ b # rx[pos + 3]
    /\ rx' = [rx EXCEPT ![pos + 3] = b]
    /\ tampered' = "payload"
    /\ UNCHANGED <<cursor, op, codec, strict, value, shape, pc, vecres, buffer, sliceres,
                   probe, decoded>>

\* the peer (or the link) uses another start or end marker
AlterMarker(which, b) ==
    /\ LET at == IF which = "start" THEN 1 ELSE rx[2] + 3
       IN  /\ b # rx[at]
           /\ rx' = [rx EXCEPT ![at] = b]
    /\ tampered' = which
    /\ UNCHANGED <<cursor, op, codec, strict, value, shape, pc, vecres, buffer, sliceres,
                   probe, decoded>>

DeserializeSlice ==
    /\ Sending
    /\ LET r == deserialize_slice(codec, strict, rx, shape)
       IN  decoded' = [called |-> TRUE, err |-> r.err, val |-> r.val]
    /\ pc' = "decoded"
    /\ UNCHANGED <<cursor, op, codec, strict, value, shape, vecres, buffer, sliceres, rx,
                   probe, tampered>>

\* the caller encodes and the receiver decodes over a link that delivers the
\* payload as sent (a peer may use other markers)
Next ==
    \/ /\ pc = "start"
       /\ \E cap \in Capacities, fill \in FillBytes : SerializeSlice(cap, fill)
    \/ SerializeVec
    \/ Receive
    \/ \E b \in TrailerBytes : ReceiveTrailing(b)
    \/ IsCompleteMessage
    \/ /\ Received
       /\ \E which \in {"start", "end"}, b \in MarkerBytes : AlterMarker(which, b)
    \/ DeserializeSlice

Spec == Init /\ [][Next]_vars

\* the same over a link that may replace one payload byte of the frame
NextLink ==
    \/ SerializeVec
    \/ Receive
    \/ IsCompleteMessage
    \/ /\ Received
       /\ rx[2] <= MaxCorruptLen
       /\ \E pos \in 0..(rx[2] - 1), b \in Byte : Corrupt(pos, b)
    \/ DeserializeSlice

SpecLink == Init /\ [][NextLink]_vars

\* ------------------------------------------------------------------ cursor calls
\* A caller drives one SliceCursor directly: reads, writes, and the requests a
\* value or a type makes of the Serializer / Deserializer built over it.

MaxCursorCap == 3

CursorBytes == {0, 1, 7}
ReadSizes == {0, 1, 2, 4}

\* the slices of at most n bytes
Slices(n) == UNION {[1..k -> CursorBytes] : k \in 0..n}

\* a value of a kind the serializer has an unimpl! arm (or an unimpl! body) for
Unsupported(kind) ==
    Val(kind, IF kind = "unit_struct" THEN "Marker" ELSE "", 0, <<>>)

\* a type of a kind the deserializer has an unimpl_de! arm (or an unimpl! body) for
SUnsupported(kind) == Shape(kind, IF kind = "unit_struct" THEN "Marker" ELSE "", <<>>)

\* the values that ask the serializer to write them
SerializeRequests ==
    << Unsupported("u32"), Unsupported("i32"), Unsupported("u64"),
       Unsupported("i64"), Unsupported("u128"), Unsupported("i128"),
       Unsupported("f64"), Unsupported("char"), Unsupported("str"),
       Unsupported("bytes"), Unsupported("none"), Unsupported("unit"),
       Unsupported("unit_struct"), Unsupported("some"), Unsupported("seq"),
       Unsupported("map"),
       Bool(TRUE), U8(7), U16(263), F32(1065353216),
       UnitVariant("TestEnum", 0), NewtypeVariant("TestEnum", 1, U16(1)),
       Tuple(<<U8(1), Unsupported("none")>>),
       Struct("Holder", <<Unsupported("str"), U8(1)>>) >>

\* the types that ask the deserializer to read them
DeserializeRequests ==
    << SUnsupported("any"), SUnsupported("i32"), SUnsupported("i64"),
       SUnsupported("u32"), SUnsupported("u64"), SUnsupported("f64"),
       SUnsupported("char"), SUnsupported("str"), SUnsupported("string"),
       SUnsupported("bytes"), SUnsupported("byte_buf"), SUnsupported("option"),
       SUnsupported("unit"), SUnsupported("unit_struct"), SUnsupported("seq"),
       SUnsupported("map"), SUnsupported("ignored_any"),
       SBool, SU8, SU16, SF32, TestEnum,
       STuple(<<SU8, SUnsupported("option")>>),
       SStruct("Holder", <<SUnsupported("str"), SU8>>) >>

InitCursor ==
    /\ codec = default
    /\ strict = FALSE
    /\ value = NoValue
    /\ shape = SBool
    /\ pc = "cursor"
    /\ vecres = NotCalled
    /\ buffer = <<>>
    /\ sliceres = [err |-> Ok, n |-> 0]
    /\ rx = <<>>
    /\ probe = [called |-> FALSE, some |-> FALSE, msg |-> <<>>]
    /\ tampered = "no"
    /\ decoded = [called |-> FALSE, err |-> Ok, val |-> NoValue]
    /\ \E bf \in Slices(MaxCursorCap) : cursor = from_slice(bf)
    /\ op = NoOp

\* cursor.read_n::<N>()
ReadN(N) ==
    /\ LET r == read_n(cursor, N)
       IN  /\ cursor' = r.c
           /\ op' = [name |-> "read_n", arg |-> N, err |-> r.err, out |-> r.bytes,
                     before |-> cursor]
    /\ UNCHANGED <<codec, strict, value, shape, pc, vecres, buffer, sliceres, rx,
                   probe, tampered, decoded>>

\* cursor.push_slice(data)
PushSlice(data) ==
    /\ LET r == push_slice(cursor, data)
       IN  /\ cursor' = r.b
           /\ op' = [name |-> "push_slice", arg |-> data, err |-> r.err,
                     out |-> <<>>, before |-> cursor]
    /\ UNCHANGED <<codec, strict, value, shape, pc, vecres, buffer, sliceres, rx,
                   probe, tampered, decoded>>

\* cursor.push_u8(byte)
PushU8(byte) ==
    /\ LET r == push_u8(cursor, byte)
       IN  /\ cursor' = r.b
           /\ op' = [name |-> "push_u8", arg |-> <<byte>>, err |-> r.err,
                     out |-> <<>>, before |-> cursor]
    /\ UNCHANGED <<codec, strict, value, shape, pc, vecres, buffer, sliceres, rx,
                   probe, tampered, decoded>>

\* v.serialize(&mut Serializer::new(&mut cursor))
SerializeRequest(v) ==
    /\ LET r == Serialize(cursor, v)
       IN  /\ cursor' = r.b
           /\ op' = [name |-> "serialize", arg |-> v, err |-> r.err,
                     out |-> <<>>, before |-> cursor]
    /\ UNCHANGED <<codec, strict, value, shape, pc, vecres, buffer, sliceres, rx,
                   probe, tampered, decoded>>

\* T::deserialize(&mut Deserializer::new(&mut cursor))
DeserializeRequest(sh) ==
    /\ LET r == Deserialize(cursor, sh)
       IN  /\ cursor' = r.c
           /\ op' = [name |-> "deserialize", arg |-> sh, err |-> r.err,
                     out |-> <<r.val>>, before |-> cursor]
    /\ UNCHANGED <<codec, strict, value, shape, pc, vecres, buffer, sliceres, rx,
                   probe, tampered, decoded>>

NextCursor ==
    \/ \E N \in ReadSizes : ReadN(N)
    \/ \E data \in Slices(2) : PushSlice(data)
    \/ \E byte \in CursorBytes : PushU8(byte)
    \/ \E i \in 1..Len(SerializeRequests) : SerializeRequest(SerializeRequests[i])
    \/ \E i \in 1..Len(DeserializeRequests) : DeserializeRequest(DeserializeRequests[i])

SpecCursor == InitCursor /\ [][NextCursor]_vars

\* ------------------------------------------------------------------ wire
\* A receiver that did not encode anything: bytes of any value arrive from a
\* peer, and the receiver decodes what it holds as a type of its choosing.

MaxWire == 5

WireCodec == new(1, 4)

\* the markers of WireCodec, the lengths 0 and 1, the payload bytes 0, 1 and 4,
\* and the CRCs of the payloads <<1>> and <<4>>
WireBytes == {0, 1, 4, 94, 97}

\* the types the receiver decodes as
WireShapes ==
    << SBool, SU8, SI8, SU16, SF32, TestEnum, SUnsupported("u32"),
       SStruct("Empty", <<>>), STuple(<<SU8, SU8>>), STuple(<<SBool, SU16>>) >>

InitWire ==
    /\ codec = WireCodec
    /\ strict \in BOOLEAN
    /\ value = NoValue
    /\ shape = SBool
    /\ pc = "listen"
    /\ vecres = NotCalled
    /\ buffer = <<>>
    /\ sliceres = [err |-> Ok, n |-> 0]
    /\ rx = <<>>
    /\ probe = [called |-> FALSE, some |-> FALSE, msg |-> <<>>]
    /\ tampered = "no"
    /\ decoded = [called |-> FALSE, err |-> Ok, val |-> NoValue]
    /\ cursor = from_slice(<<>>)
    /\ op = NoOp

\* one more byte in the receive buffer
Arrive(b) ==
    /\ pc = "listen"
    /\ Len(rx) < MaxWire
    /\ rx' = Append(rx, b)
    /\ UNCHANGED <<cursor, op, codec, strict, value, shape, pc, vecres, buffer,
                   sliceres, probe, tampered, decoded>>

\* codec.deserialize_slice::<T>(&rx), T of shape sh
DecodeAs(sh) ==
    /\ pc = "listen"
    /\ shape' = sh
    /\ LET r == deserialize_slice(codec, strict, rx, sh)
       IN  decoded' = [called |-> TRUE, err |-> r.err, val |-> r.val]
    /\ pc' = "decoded"
    /\ UNCHANGED <<cursor, op, codec, strict, value, vecres, buffer, sliceres, rx,
                   probe, tampered>>

NextWire ==
    \/ \E b \in WireBytes : Arrive(b)
    \/ \E i \in 1..Len(WireShapes) : DecodeAs(WireShapes[i])

SpecWire == InitWire /\ [][NextWire]_vars

\* ------------------------------------------------------------------ properties

VecCalled == pc \in {"vec", "both", "decoded"}
SliceCalled == pc \in {"slice", "both"}

\* the frame serialize_slice left in the first n bytes of the caller's buffer
SliceFrame == SubSeq(buffer, 1, sliceres.n)

\* vecres and (buffer, sliceres) are set by one call each and never change, so
\* what holds of them is decided in the states where nothing is received yet
Fresh == rx = <<>> /\ ~probe.called /\ ~decoded.called

RECURSIVE SupportedValue(_)
\* the values of the shapes the codec is said to support, of a size and with
\* discriminants the frame can carry
SupportedValue(v) ==
    /\ v.t \in {"bool", "u8", "i8", "u16", "i16", "f32", "tuple", "struct",
                "tuple_struct", "newtype_struct", "unit_variant",
                "newtype_variant", "tuple_variant", "struct_variant"}
    /\ v.t \in {"unit_variant", "newtype_variant", "tuple_variant",
                "struct_variant"} => v.n <= U8Max
    /\ Len(v.fs) <= U8Max
    /\ \A k \in 1..Len(v.fs) : SupportedValue(v.fs[k])

\* the frame came in whole and unaltered, and was decoded as the value's type
DecodedWhole ==
    decoded.called /\ tampered = "no" /\ Len(rx) >= Len(vecres.buf)

\* C1: round trip.  Every value of a supported shape encodes, and decoding the
\* frame as the same type with the same codec gives the value back.
C1_RoundTrip ==
    SupportedValue(value) =>
        /\ VecCalled => vecres.err = Ok
        /\ SliceCalled /\ Len(buffer) >= Need => sliceres.err = Ok
        /\ DecodedWhole => decoded.err = Ok /\ decoded.val = value

\* the textbook form of the same CRC-8 (reflected polynomial 0x8C, initial
\* value 0): exclusive-or the byte in, then eight shifts to the right
RefCrcShift(x) == IF x % 2 = 1 THEN Xor(x \div 2, Polynomial) ELSE x \div 2

RefCrcByte(crc, byte) ==
    RefCrcShift(RefCrcShift(RefCrcShift(RefCrcShift(RefCrcShift(RefCrcShift(
        RefCrcShift(RefCrcShift(Xor(crc, byte)))))))))

RECURSIVE RefCrcRange(_, _, _, _)
RefCrcRange(crc, bytes, lo, hi) ==
    IF lo > hi \/ crc \notin Byte THEN crc
    ELSE IF lo = hi THEN RefCrcByte(crc, bytes[lo])
    ELSE LET mid == (lo + hi) \div 2
         IN  RefCrcRange(RefCrcRange(crc, bytes, lo, mid), bytes, mid + 1, hi)

RefCrc(bytes) == RefCrcRange(0, bytes, 1, Len(bytes))

\* f is laid out as a frame of this codec around the payload
FrameLayout(f, payload) ==
    /\ Len(f) >= 4
    /\ f[1] = codec.start_index
    /\ f[2] = Len(payload)
    /\ f[2] \in 0..U8Max
    /\ SubSeq(f, 3, 2 + f[2]) = payload
    /\ f[3 + f[2]] = codec.end_index
    /\ f[4 + f[2]] = RefCrc(payload)
    /\ Len(f) = f[2] + 4

\* C2: frame layout.  Every successful serialize_vec or serialize_slice leaves
\* start marker, payload length, payload, end marker, CRC-8 of the payload, in
\* that order, length + 4 bytes in all.
C2_FrameLayout ==
    Fresh =>
        /\ VecCalled /\ vecres.err = Ok => FrameLayout(vecres.buf, Written)
        /\ SliceCalled /\ sliceres.err = Ok => FrameLayout(SliceFrame, Written)

C2_Witness ==
    /\ pc = "both" /\ sliceres.err = Ok /\ vecres.err = Ok
    /\ codec # default
    /\ Len(Written) = 10
    /\ FrameLayout(SliceFrame, Written)

\* C3: the two encode entry points agree.  When serialize_slice returns n,
\* serialize_vec returns the first n bytes of the buffer; when serialize_vec
\* fails, serialize_slice into a buffer with room for the frame fails alike.
C3_EntryPointsAgree ==
    pc = "both" =>
        /\ sliceres.err = Ok => vecres.err = Ok /\ vecres.buf = SliceFrame
        /\ vecres.err # Ok /\ Len(buffer) >= Need => sliceres.err = vecres.err

C3_Witness ==
    /\ pc = "both" /\ sliceres.err = Ok /\ sliceres.n = 11
    /\ Len(buffer) > sliceres.n
    /\ vecres.buf = SliceFrame

\* C4: corruption detection.  Replacing one payload byte of a received frame
\* by any other value makes deserialize_slice fail with WrongCrc.
C4_CorruptionDetected ==
    decoded.called /\ tampered = "payload" => decoded.err = WrongCrc

C4_Witness ==
    /\ decoded.called /\ tampered = "payload" /\ decoded.err = WrongCrc
    /\ Len(rx) = 11 /\ rx[11] = vecres.buf[11]
    /\ \E k \in 3..9 : rx[k] # vecres.buf[k]

\* the answer is_complete_message owes on the bytes received so far of a frame
ProbeAnswer ==
    IF Len(rx) < Len(vecres.buf) THEN ~probe.some
    ELSE /\ probe.some
         /\ probe.msg = vecres.buf
         /\ Len(probe.msg) = vecres.buf[2] + 4

\* C5: probe correctness.  While a frame arrives byte by byte, every call of
\* is_complete_message on a proper prefix answers None, and a call on the whole
\* frame (bytes may follow it) answers the frame; the call leaves the receive
\* buffer as it is, and asked again on the same bytes it answers the same.
C5_ProbeCorrect ==
    /\ [](probe.called /\ tampered = "no" => ProbeAnswer)
    /\ [][/\ ~probe.called /\ probe'.called => rx' = rx
          /\ probe.called /\ probe'.called /\ rx' = rx => probe' = probe]_vars

C5_Witness ==
    /\ probe.called /\ tampered = "no" /\ probe.some
    /\ Len(rx) > Len(vecres.buf)
    /\ probe.msg = vecres.buf

\* the value has a frame: it serializes, into Written, of at most 255 bytes
HasFrame == Serialize(VecBuffer(<<>>), value).err = Ok /\ Len(Written) <= U8Max

\* C6: payload ceiling.  A payload of more than 255 bytes fails with TooLong,
\* in serialize_vec and in serialize_slice whenever the buffer took the whole
\* payload (capacity at least payload length + 2).
C6_PayloadCeiling ==
    Fresh /\ Serialize(VecBuffer(<<>>), value).err = Ok /\ Len(Written) > U8Max =>
        /\ VecCalled => vecres.err = TooLong
        /\ SliceCalled /\ Len(buffer) >= Len(Written) + 2 => sliceres.err = TooLong

\* a prefix of buf that is_complete_message returns and that passes the marker
\* and CRC checks of deserialize_slice
ReadsAsFrame(buf) ==
    \E n \in 0..Len(buf) :
        /\ is_complete_message(SubSeq(buf, 1, n)).some
        /\ frame_checks(codec, strict, SubSeq(buf, 1, n)).err = Ok

\* C7: capacity enforcement.  serialize_slice into a buffer smaller than the
\* frame fails with BufferFull and leaves nothing in the buffer that reads as
\* a valid frame.
C7_CapacityEnforced ==
    SliceCalled /\ HasFrame /\ Len(buffer) < Need =>
        /\ sliceres.err = BufferFull
        /\ ~ReadsAsFrame(buffer)

\* C8: strict mode.  A frame valid but for its start or end marker fails with
\* WrongIndex when strict mode is on, and decodes to the encoded value when it
\* is off.
C8_StrictMode ==
    decoded.called /\ tampered \in {"start", "end"} =>
        IF strict THEN decoded.err = WrongIndex
        ELSE decoded.err = Ok /\ decoded.val = value

C8_Witness ==
    /\ decoded.called /\ tampered = "end" /\ ~strict
    /\ rx[Len(rx) - 1] # codec.end_index
    /\ decoded.err = Ok /\ decoded.val = value
    /\ value.t = "struct"

\* C9: unit variant encoding.  A unit variant with discriminant d serializes
\* to the one byte d.
C9_UnitVariant ==
    VecCalled /\ value.t = "unit_variant" /\ value.n <= U8Max =>
        /\ vecres.err = Ok
        /\ SubSeq(vecres.buf, 3, Len(vecres.buf) - 2) = <<value.n>>

RECURSIVE RefEncoding(_)
RECURSIVE RefConcat(_, _, _)
\* the encodings of the fields lo..hi one after the other
RefConcat(fields, lo, hi) ==
    IF lo > hi THEN <<>>
    ELSE IF lo = hi THEN RefEncoding(fields[lo])
    ELSE LET mid == (lo + hi) \div 2
         IN  RefConcat(fields, lo, mid) \o RefConcat(fields, mid + 1, hi)

\* the payload the encoding table gives a value: little-endian scalars, fields
\* in declared order, a discriminant byte before the fields of a variant
RefEncoding(v) ==
    CASE v.t = "bool" -> IF v.n THEN <<1>> ELSE <<0>>
      [] v.t \in {"u8", "i8"} -> <<v.n % 256>>
      [] v.t \in {"u16", "i16"} -> <<v.n % 256, (v.n \div 256) % 256>>
      [] v.t = "f32" -> <<v.n % 256, (v.n \div 256) % 256, (v.n \div 65536) % 256,
                          (v.n \div 16777216) % 256>>
      [] v.t \in {"tuple", "tuple_struct", "struct", "newtype_struct"} ->
           RefConcat(v.fs, 1, Len(v.fs))
      [] v.t \in {"newtype_variant", "tuple_variant", "struct_variant"} ->
           <<v.n>> \o RefConcat(v.fs, 1, Len(v.fs))

\* the scenarios of the specification
ScenarioRecord == Struct("TestPayload", <<U16(1), U8(2), F32(1065353216)>>)
ScenarioTag2 == NewtypeVariant("TestEnum", 1, U16(10))

\* C10: byte-exact payload.  The payload of an encoded value is the
\* concatenation of its parts' encodings, with no separators and no length
\* prefix; the record {a: 1, b: 2, c: 1.0} gives 01 00 02 00 00 80 3F and
\* Tag2(10) gives 01 0A 00.
C10_PayloadEncoding ==
    Fresh =>
        /\ VecCalled /\ vecres.err = Ok =>
             /\ SubSeq(vecres.buf, 3, Len(vecres.buf) - 2) = RefEncoding(value)
             /\ value = ScenarioRecord =>
                  SubSeq(vecres.buf, 3, 9) = <<1, 0, 2, 0, 0, 128, 63>>
             /\ value = ScenarioTag2 => SubSeq(vecres.buf, 3, 5) = <<1, 10, 0>>
        /\ SliceCalled /\ sliceres.err = Ok =>
             SubSeq(SliceFrame, 3, sliceres.n - 2) = RefEncoding(value)

C10_Witness ==
    /\ pc = "vec" /\ vecres.err = Ok
    /\ value = StructVariant("Command", 3, <<I16(-300), I8(-5)>>)
    /\ SubSeq(vecres.buf, 3, Len(vecres.buf) - 2) = <<3, 212, 254, 251>>

\* the kinds the codec is said not to support
UnsupportedKinds ==
    {"u32", "i32", "u64", "i64", "u128", "i128", "f64", "char", "str", "string",
     "bytes", "byte_buf", "none", "some", "option", "unit", "unit_struct", "seq",
     "map", "any"}

\* the last call on the cursor asked for a value or a type of an unsupported kind
UnsupportedRequest ==
    /\ op.name \in {"serialize", "deserialize"}
    /\ op.arg.t \in UnsupportedKinds

\* C11: every request to serialize or deserialize an unsupported shape fails
\* with NoSupport carrying a non-empty name, and neither writes a byte to the
\* buffer nor moves the cursor.
C11_ClosedSupport ==
    UnsupportedRequest =>
        /\ op.err.kind = "NoSupport"
        /\ op.err.name # ""
        /\ cursor = op.before

\* the part of C11 the code keeps: NoSupport, and the cursor untouched
C11_NoSupportNoBytes ==
    UnsupportedRequest => op.err.kind = "NoSupport" /\ cursor = op.before

\* the requests that report an empty name are the ones for none and unit
C11_EmptyNames ==
    UnsupportedRequest /\ op.err.name = "" =>
        op.name = "serialize" /\ op.arg.t \in {"none", "unit"}

\* the bytes a call on the cursor was to write
Pushed == op.arg

\* the bytes left between the index and the end of the slice before the call
Remaining == Len(op.before.buffer) - op.before.index

\* C12: 0 <= index <= capacity after any sequence of calls on a SliceCursor;
\* a successful read_n of N bytes returns the N bytes at the old index and
\* advances index by N; a successful push stores its k bytes at the old index
\* and advances index by k; a failing call (Eof, BufferFull) leaves the index
\* and the buffer as they were.
C12_CursorInvariant ==
    /\ 0 <= cursor.index
    /\ cursor.index <= Len(cursor.buffer)
    /\ op.name # "" => Len(cursor.buffer) = Len(op.before.buffer)
    /\ op.name = "read_n" =>
          IF op.arg <= Remaining
          THEN /\ op.err = Ok
               /\ op.out = [k \in 1..op.arg |-> op.before.buffer[op.before.index + k]]
               /\ cursor.index = op.before.index + op.arg
               /\ cursor.buffer = op.before.buffer
          ELSE op.err = Eof /\ cursor = op.before
    /\ op.name \in {"push_slice", "push_u8"} =>
          IF Len(Pushed) <= Remaining
          THEN /\ op.err = Ok
               /\ cursor.index = op.before.index + Len(Pushed)
               /\ cursor.buffer =
                    [k \in 1..Len(op.before.buffer) |->
                        IF k > op.before.index /\ k <= op.before.index + Len(Pushed)
                        THEN Pushed[k - op.before.index]
                        ELSE op.before.buffer[k]]
          ELSE op.err = BufferFull /\ cursor = op.before

\* a two-byte push fails for want of room after the cursor has advanced
C12_Witness ==
    /\ op.name = "push_slice"
    /\ op.err = BufferFull
    /\ Len(op.arg) = 2
    /\ op.before.index = 2
    /\ Len(cursor.buffer) = 3

\* the receive buffer holds length + 4 bytes or more
WireComplete == Len(rx) >= 2 /\ Len(rx) >= rx[2] + 4

\* the fields of the first frame of the receive buffer
WireLength == rx[2]
WirePayload == SubSeq(rx, 3, 2 + WireLength)
WireEnd == rx[3 + WireLength]
WireCrc == rx[4 + WireLength]

MarkersMatch == rx[1] = codec.start_index /\ WireEnd = codec.end_index
CrcMatches == WireCrc = RefCrc(WirePayload)

\* the frame passes the checks made ahead of the deserializer
PassesChecks == WireComplete /\ (strict => MarkersMatch) /\ CrcMatches

\* C13: decode check ordering.  deserialize_slice checks completeness (Eof),
\* then the markers (WrongIndex, strict mode only), then the CRC (WrongCrc),
\* and runs the deserializer last: a complete frame with a wrong CRC byte gives
\* WrongCrc (WrongIndex when strict mode finds a marker wrong) whatever the
\* payload and the requested type, and InvalidData, NoSupport, DeError, or Eof
\* on a complete frame, come only from frames that passed the checks.
C13_CheckOrdering ==
    decoded.called =>
        /\ ~WireComplete => decoded.err = Eof
        /\ WireComplete =>
              IF strict /\ ~MarkersMatch THEN decoded.err = WrongIndex
              ELSE IF ~CrcMatches THEN decoded.err = WrongCrc
              ELSE decoded.err.kind \notin {"WrongIndex", "WrongCrc"}
        /\ decoded.err.kind \in {"InvalidData", "NoSupport", "DeError"} => PassesChecks
        /\ decoded.err = Eof /\ WireComplete => PassesChecks

\* a complete frame with a wrong CRC, decoded as a type the deserializer rejects
C13_Witness ==
    /\ decoded.called /\ WireComplete /\ WireLength = 1
    /\ MarkersMatch /\ ~CrcMatches
    /\ shape = SUnsupported("u32")
    /\ decoded.err = WrongCrc

\* the scalar fields, in declared order, of a scalar or of a flat tuple or record
Scalars(sh) == IF sh.t \in {"tuple", "tuple_struct", "struct"} THEN sh.fs ELSE <<sh>>

ScalarSize(kind) ==
    CASE kind \in {"bool", "u8", "i8"} -> 1
      [] kind \in {"u16", "i16"} -> 2
      [] kind = "f32" -> 4

\* the types made of scalars only, whose size does not depend on the bytes read
FlatShape(sh) ==
    \A i \in 1..Len(Scalars(sh)) :
        Scalars(sh)[i].t \in {"bool", "u8", "i8", "u16", "i16", "f32"}

RECURSIVE SizeUpTo(_, _)
\* the bytes the first i scalars take
SizeUpTo(scalars, i) ==
    IF i = 0 THEN 0 ELSE SizeUpTo(scalars, i - 1) + ScalarSize(scalars[i].t)

\* the bytes the type needs
Needs(sh) == SizeUpTo(Scalars(sh), Len(Scalars(sh)))

\* the i-th scalar lies inside the payload
Inside(sh, i) == SizeUpTo(Scalars(sh), i) <= WireLength

\* the byte at offset k (from 1) of the i-th scalar, in the payload
ScalarByte(sh, i, k) == WirePayload[SizeUpTo(Scalars(sh), i - 1) + k]

\* the i-th scalar lies inside the payload and its bytes are no encoding of it
Rejected(sh, i) ==
    Inside(sh, i) /\ Scalars(sh)[i].t = "bool" /\ ScalarByte(sh, i, 1) \notin {0, 1}

\* the value the encoding table reads from the bytes of the i-th scalar
RefScalar(sh, i) ==
    LET kind == Scalars(sh)[i].t
        b1 == ScalarByte(sh, i, 1)
        b2 == ScalarByte(sh, i, 2)
        b3 == ScalarByte(sh, i, 3)
        b4 == ScalarByte(sh, i, 4)
    IN  CASE kind = "bool" -> Bool(b1 = 1)
          [] kind = "u8" -> U8(b1)
          [] kind = "i8" -> I8(IF b1 >= 128 THEN b1 - 256 ELSE b1)
          [] kind = "u16" -> U16(b1 + 256 * b2)
          [] kind = "i16" -> I16(IF b2 >= 128 THEN b1 + 256 * b2 - 65536
                                 ELSE b1 + 256 * b2)
          [] kind = "f32" -> F32(b1 + 256 * b2 + 65536 * b3
                                 + (IF b4 >= 128 THEN b4 - 256 ELSE b4) * 16777216)

\* the value the encoding table reads from the payload as the type
RefValue(sh) ==
    IF sh.t \in {"tuple", "tuple_struct", "struct"}
    THEN Val(sh.t, sh.name, 0, [i \in 1..Len(sh.fs) |-> RefScalar(sh, i)])
    ELSE RefScalar(sh, 1)

\* the first scalar that does not lie inside the payload or is rejected
FirstFailure(sh) ==
    CHOOSE i \in 1..Len(Scalars(sh)) :
        /\ ~Inside(sh, i) \/ Rejected(sh, i)
        /\ \A j \in 1..(i - 1) : Inside(sh, j) /\ ~Rejected(sh, j)

\* C14, amended: decoding is confined to the payload of the first frame.  For
\* a frame that passes the marker and CRC checks, the fields are read in order
\* from the payload alone and the first one that fails decides the error: Eof
\* for a field that reaches past the payload (the end marker, the CRC byte and
\* what follows the frame are never read as value bytes), InvalidData for a
\* field inside the payload whose bytes are rejected; when no field fails the
\* decode succeeds, the surplus of the payload being ignored.
C14_Confined ==
    decoded.called /\ PassesChecks /\ FlatShape(shape) =>
        IF \E i \in 1..Len(Scalars(shape)) : ~Inside(shape, i) \/ Rejected(shape, i)
        THEN decoded.err = (IF Inside(shape, FirstFailure(shape))
                            THEN InvalidData ELSE Eof)
        ELSE decoded.err = Ok /\ decoded.val = RefValue(shape)

\* a two-byte type asked of a one-byte payload: Eof, the end marker not read
C14_Witness ==
    /\ decoded.called /\ PassesChecks /\ WireLength = 1
    /\ shape = SU16
    /\ decoded.err = Eof

\* C14, as stated: for a frame that passes the marker and CRC checks, a type
\* that needs more bytes than length fails with Eof, and a type that needs
\* fewer decodes, the surplus of the payload and what follows the frame being
\* ignored.
C14_PayloadConfined ==
    decoded.called /\ PassesChecks /\ FlatShape(shape) =>
        /\ Needs(shape) > WireLength => decoded.err = Eof
        /\ Needs(shape) < WireLength =>
              decoded.err = Ok /\ decoded.val = RefValue(shape)


=============================================================================
